---- MODULE Spec2Model ----
(***************************************************************************)
(* Token lifecycle of backend/main.py, backend/auth.py and backend/crud.py *)
(* (register, login, refresh with rotation, logout, logout-all, cleanup).  *)
(* Each HTTP request runs in its own worker with its own database session; *)
(* one action of the model is one database statement (or commit) of a      *)
(* handler together with the in-process computation that precedes it.      *)
(* The clock is datetime.utcnow(), counted in fractions of a minute.       *)
(***************************************************************************)
EXTENDS Integers, FiniteSets, Sequences, TLC

VARIABLES
    now,        \* datetime.utcnow(), in clock units (Grain to the minute)
    ticks,      \* clock advances so far
    tz,         \* the server's local-time offset from UTC, in clock units
    collation,  \* how the database compares users.email: "binary" or "nocase"
    model,      \* the pickled classifier and scaler load_artifacts found, or "None"
    history,    \* table analysis_history, in order of insertion
    analysis,   \* the /analyze response just sent, and what the handler did
    users,      \* table users: email -> row
    ledger,     \* table refresh_tokens: jti -> row
    blacklist,  \* table token_blacklist: jti -> row
    nextJti,    \* the next fresh uuid4
    issued,     \* tokens returned to clients so far
    pc, req,    \* each worker's position in its handler and what it holds
    last,       \* the response just sent
    wins,       \* history: jti -> successful /refresh responses for it
    parent,     \* history: jti of a rotated-in token -> the jti it replaced
    killed,     \* history: jtis whose row a /logout/all UPDATE ran over
    loggedOut   \* history: access jtis a /logout has blacklisted

vars == <<now, ticks, tz, collation, model, history, analysis, users, ledger, blacklist, nextJti, issued,
          pc, req, last, wins, parent, killed, loggedOut>>

(* ------------------------------ bounds --------------------------------- *)
\* token pairs create_token_pair may mint in one run
MaxPairs == 3
\* clock advances in one run
MaxTicks == 1
\* /logout requests that insert a blacklist row in one run
MaxLogouts == 1
MaxAdvances == 2
\* clock units to the minute: datetime.utcnow() is finer than the whole-number
\* timestamps of a JWT, which the model takes to be whole minutes
Grain == 2
\* clock advances in one run that goes through the end of a token's life
MaxInstants == 3

Procs == {"w1", "w2"}
Emails == {"a@x.com", "b@x.com"}
Passwords == {"pw1", "pw2"}
\* emails accounts are registered for while requests run concurrently
ConcurrentEmails == {"a@x.com"}
\* the worker that serves the requests when they come one at a time
SeqWorker == "w1"
\* the password a user registers with
RegisterPasswords == {"pw1"}
\* local-time offset of the server from UTC (an hour west, or none)
TzOffsets == {0 - 60 * Grain, 0}

MaxJti == 2 * MaxPairs
Jtis == 1..MaxJti
NoJti == 0
NoTime == 0 - 1

(* --------------------------- auth.py ----------------------------------- *)
SECRET_KEY == "your-secret-key-change-in-production-use-env-variable"
REFRESH_SECRET_KEY == "refresh-secret-key-different-from-access"
ACCESS_TOKEN_EXPIRE_MINUTES == 15
REFRESH_TOKEN_EXPIRE_DAYS == 7

\* timedelta(minutes = m) and timedelta(days = d) in clock units
Minutes(m) == m * Grain
Days(d) == Minutes(d * 24 * 60)

\* calendar.timegm(d.utctimetuple()), by which jose turns the datetime of a
\* claim and the present time into whole-number timestamps: the fraction is
\* dropped.
timegm(d) == d - (d % Grain)

\* The clock advances to the last minute a refresh token minted before is
\* accepted, or one minute past it.
TickSteps ==
    {Days(REFRESH_TOKEN_EXPIRE_DAYS), Days(REFRESH_TOKEN_EXPIRE_DAYS) + Minutes(1)}

\* A signed token: the key it was signed with and its claims.
NoToken == [sig |-> "", type |-> "", sub |-> "", exp |-> 0, jti |-> NoJti]
NoPayload == [type |-> "", sub |-> "", exp |-> 0, jti |-> NoJti]

\* A password of 72 bytes, and the same 72 bytes followed by more.
Long72 == "a password of 72 bytes"
Longer == "a password of 72 bytes and more"

\* bcrypt, the one scheme of pwd_context, hashes the first 72 bytes of a
\* password.
First72(password) == IF password = Longer THEN Long72 ELSE password

hash_password(password) == <<"bcrypt", First72(password)>>

\* A password check that accepts every password
verify_password_AcceptsAll(plain_password, hashed_password) == TRUE

verify_password(plain_password, hashed_password) ==
    hashed_password = <<"bcrypt", First72(plain_password)>>

create_access_token(email, clock, jti) ==
    [sig |-> SECRET_KEY, type |-> "access", sub |-> email,
     exp |-> timegm(clock + Minutes(ACCESS_TOKEN_EXPIRE_MINUTES)), jti |-> jti]

create_refresh_token(email, clock, jti) ==
    [sig |-> REFRESH_SECRET_KEY, type |-> "refresh", sub |-> email,
     exp |-> timegm(clock + Days(REFRESH_TOKEN_EXPIRE_DAYS)), jti |-> jti]

\* A decoder that already refuses a token at its exp
jwt_decode_ExpAtExp(token, key, clock) ==
    IF token.sig = key /\ token.exp > timegm(clock)
    THEN [type |-> token.type, sub |-> token.sub, exp |-> token.exp, jti |-> token.jti]
    ELSE NoPayload

\* jose.jwt.decode: the signature under `key`, then exp against the clock
\* in whole-number timestamps (ExpiredSignatureError when exp < now).
jwt_decode(token, key, clock) ==
    IF token.sig = key /\ ~(token.exp < timegm(clock))
    THEN [type |-> token.type, sub |-> token.sub, exp |-> token.exp, jti |-> token.jti]
    ELSE NoPayload

\* decode_access_token that reads the claims without verifying the signature
decode_access_token_Unverified(token, clock) ==
    IF token.type = "access" /\ ~(token.exp < timegm(clock))
    THEN [type |-> token.type, sub |-> token.sub, exp |-> token.exp, jti |-> token.jti]
    ELSE NoPayload

\* An access decoder that does not look at the payload's type
decode_access_token_AnyType(token, clock) == jwt_decode(token, SECRET_KEY, clock)

decode_access_token(token, clock) ==
    LET payload == jwt_decode(token, SECRET_KEY, clock)
    IN IF payload # NoPayload /\ payload.type = "access" THEN payload ELSE NoPayload

\* A refresh decoder that does not look at the payload's type
decode_refresh_token_AnyType(token, clock) == jwt_decode(token, REFRESH_SECRET_KEY, clock)

decode_refresh_token(token, clock) ==
    LET payload == jwt_decode(token, REFRESH_SECRET_KEY, clock)
    IN IF payload # NoPayload /\ payload.type = "refresh" THEN payload ELSE NoPayload

(* --------------------------- crud.py ----------------------------------- *)
NoUser == [email |-> "", password_hash |-> <<>>, is_active |-> FALSE, last_login |-> NoTime]

\* The comparison of users.email the database makes for a WHERE clause and
\* for the unique index: byte for byte, or ignoring the case of letters.
Fold(email) == IF email = "A@x.com" THEN "a@x.com" ELSE email
Matches(stored, email) ==
    IF collation = "nocase" THEN Fold(stored) = Fold(email) ELSE stored = email

get_user_by_email(tbl, email) ==
    IF \E k \in DOMAIN tbl : Matches(k, email)
    THEN tbl[CHOOSE k \in DOMAIN tbl : Matches(k, email)]
    ELSE NoUser

\* Column defaults of User (is_active default True, last_login nullable).
NewUser(email, password) ==
    [email |-> email, password_hash |-> hash_password(password),
     is_active |-> TRUE, last_login |-> NoTime]

Put(f, k, v) == [x \in DOMAIN f \cup {k} |-> IF x = k THEN v ELSE f[x]]

create_user(tbl, email, password) == Put(tbl, email, NewUser(email, password))

update_last_login(tbl, email, clock) ==
    [tbl EXCEPT ![email].last_login = clock]

_hash_token(token) == <<"sha256", token>>

\* A TokenBlacklist row as blacklist_token builds it.
BlacklistRow(token_type, expires_at, user_email) ==
    [token_type |-> token_type, user_email |-> user_email, expires_at |-> expires_at]

blacklist_token(bl, jti, token_type, expires_at, user_email) ==
    Put(bl, jti, BlacklistRow(token_type, expires_at, user_email))

is_token_blacklisted(bl, jti) == jti \in DOMAIN bl

cleanup_expired_blacklist(bl, clock) ==
    [j \in {k \in DOMAIN bl : ~(bl[k].expires_at < clock)} |-> bl[j]]

\* Column defaults of a RefreshToken row that store_refresh_token leaves unset.
RefreshTokenDefaults ==
    [is_revoked |-> FALSE, revoked_at |-> NoTime, replaced_by |-> NoJti]

RefreshTokenRow(user_email, token, expires_at) ==
    [user_email |-> user_email, token_hash |-> _hash_token(token),
     expires_at |-> expires_at,
     is_revoked |-> RefreshTokenDefaults.is_revoked,
     revoked_at |-> RefreshTokenDefaults.revoked_at,
     replaced_by |-> RefreshTokenDefaults.replaced_by]

\* store_refresh_token that hashes something other than the token
store_refresh_token_OtherHash(ldg, jti, user_email, token, expires_at) ==
    Put(ldg, jti, RefreshTokenRow(user_email, NoToken, expires_at))

store_refresh_token(ldg, jti, user_email, token, expires_at) ==
    Put(ldg, jti, RefreshTokenRow(user_email, token, expires_at))

get_refresh_token(ldg, jti) == jti \in DOMAIN ldg

\* validate_refresh_token without its is_revoked test
validate_refresh_token_IgnoresRevoked(ldg, jti, token, clock) ==
    /\ get_refresh_token(ldg, jti)
    /\ ~(ldg[jti].expires_at < clock)
    /\ ldg[jti].token_hash = _hash_token(token)

\* validate_refresh_token without its comparison of the stored hash
validate_refresh_token_IgnoresHash(ldg, jti, token, clock) ==
    /\ get_refresh_token(ldg, jti)
    /\ ~ldg[jti].is_revoked
    /\ ~(ldg[jti].expires_at < clock)

validate_refresh_token(ldg, jti, token, clock) ==
    /\ get_refresh_token(ldg, jti)
    /\ ~ldg[jti].is_revoked
    /\ ~(ldg[jti].expires_at < clock)
    /\ ldg[jti].token_hash = _hash_token(token)

\* revoke_refresh_token that also clears the row's replaced_by
revoke_refresh_token_ClearsLink(ldg, jti, clock) ==
    IF get_refresh_token(ldg, jti)
    THEN [ldg EXCEPT ![jti].is_revoked = TRUE, ![jti].revoked_at = clock,
                     ![jti].replaced_by = NoJti]
    ELSE ldg

\* What revoke_refresh_token returns: True when it found the row.
RevokeReturns(ldg, jti) == get_refresh_token(ldg, jti)

revoke_refresh_token(ldg, jti, clock) ==
    IF get_refresh_token(ldg, jti)
    THEN [ldg EXCEPT ![jti].is_revoked = TRUE, ![jti].revoked_at = clock]
    ELSE ldg

\* The bulk UPDATE's WHERE clause without its user_email condition
RevokeAllMatches_AnyOwner(ldg, user_email) ==
    {j \in DOMAIN ldg : ldg[j].is_revoked = FALSE}

\* The rows the bulk UPDATE ... WHERE user_email = e AND is_revoked = 0 matches.
RevokeAllMatches(ldg, user_email) ==
    {j \in DOMAIN ldg : ldg[j].user_email = user_email /\ ldg[j].is_revoked = FALSE}

\* revoke_all_user_tokens whose UPDATE stops after the first matching row
revoke_all_user_tokens_FirstOnly(ldg, user_email, clock) ==
    [j \in DOMAIN ldg |->
        IF /\ j \in RevokeAllMatches(ldg, user_email)
           /\ \A k \in RevokeAllMatches(ldg, user_email) : j <= k
        THEN [ldg[j] EXCEPT !.is_revoked = TRUE, !.revoked_at = clock]
        ELSE ldg[j]]

revoke_all_user_tokens(ldg, user_email, clock) ==
    [j \in DOMAIN ldg |->
        IF j \in RevokeAllMatches(ldg, user_email)
        THEN [ldg[j] EXCEPT !.is_revoked = TRUE, !.revoked_at = clock]
        ELSE ldg[j]]

\* rotate_refresh_token that links the old row to the new one and leaves it
\* unrevoked
rotate_refresh_token_KeepsOld(ldg, old_jti, new_jti, user_email, new_token, expires_at, clock) ==
    LET marked == IF get_refresh_token(ldg, old_jti)
                  THEN [ldg EXCEPT ![old_jti].replaced_by = new_jti]
                  ELSE ldg
    IN store_refresh_token(marked, new_jti, user_email, new_token, expires_at)

\* rotate_refresh_token that revokes the old row without recording its successor
rotate_refresh_token_NoLink(ldg, old_jti, new_jti, user_email, new_token, expires_at, clock) ==
    store_refresh_token(revoke_refresh_token(ldg, old_jti, clock),
                        new_jti, user_email, new_token, expires_at)

\* rotate_refresh_token whose new row expires at the moment it is stored
rotate_refresh_token_ShortLived(ldg, old_jti, new_jti, user_email, new_token, expires_at, clock) ==
    LET marked == IF get_refresh_token(ldg, old_jti)
                  THEN [ldg EXCEPT ![old_jti].is_revoked = TRUE,
                                   ![old_jti].revoked_at = clock,
                                   ![old_jti].replaced_by = new_jti]
                  ELSE ldg
    IN store_refresh_token(marked, new_jti, user_email, new_token, clock)

\* The old row, when found, is marked whatever it holds by then (no condition
\* on is_revoked); the new row is inserted in either case.
rotate_refresh_token(ldg, old_jti, new_jti, user_email, new_token, expires_at, clock) ==
    LET marked == IF get_refresh_token(ldg, old_jti)
                  THEN [ldg EXCEPT ![old_jti].is_revoked = TRUE,
                                   ![old_jti].revoked_at = clock,
                                   ![old_jti].replaced_by = new_jti]
                  ELSE ldg
    IN store_refresh_token(marked, new_jti, user_email, new_token, expires_at)

cleanup_expired_refresh_tokens(ldg, clock) ==
    [j \in {k \in DOMAIN ldg : ~(ldg[k].expires_at < clock)} |-> ldg[j]]

(* ------------------------ HTTP results (main.py) ----------------------- *)
Ok == [status |-> 200, detail |-> "ok"]
EmailAlreadyRegistered == [status |-> 400, detail |-> "Email already registered"]
InvalidEmailOrPassword == [status |-> 401, detail |-> "Invalid email or password"]
AccountIsDisabled == [status |-> 403, detail |-> "Account is disabled"]
InvalidOrExpiredRefresh == [status |-> 401, detail |-> "Invalid or expired refresh token"]
TokenHasBeenRevoked == [status |-> 401, detail |-> "Token has been revoked"]
InvalidOrRevokedRefresh == [status |-> 401, detail |-> "Invalid or revoked refresh token"]
UserNotFoundOrInactive == [status |-> 401, detail |-> "User not found or inactive"]
InvalidAuthorizationHeader == [status |-> 401, detail |-> "Invalid authorization header"]
InvalidOrExpiredAccess == [status |-> 401, detail |-> "Invalid or expired access token"]
\* an exception no handler catches (IntegrityError, StaleDataError)
InternalServerError == [status |-> 500, detail |-> "Internal Server Error"]

\* The error taxonomy the responses map to.
InvalidToken == {InvalidOrExpiredRefresh, InvalidAuthorizationHeader, InvalidOrExpiredAccess}
TokenRevoked == {TokenHasBeenRevoked, InvalidOrRevokedRefresh}
InvalidCredentials == {InvalidEmailOrPassword}
AccountDisabled == {AccountIsDisabled}
UserInactive == {UserNotFoundOrInactive}


(* --------------------------- requests ---------------------------------- *)
\* What a worker holds between two statements of its handler. For /refresh,
\* history taken when the request arrives: the token is one the server
\* returned as a refresh token (genuine), a /refresh with it has succeeded
\* before (replay), a /logout/all has run over its row (dead).
NoReq == [op |-> "", tok |-> NoToken, email |-> "", password |-> "",
          acc |-> NoToken, new |-> NoToken, body |-> NoJti,
          genuine |-> FALSE, replay |-> FALSE, dead |-> FALSE]

\* The response just sent: the handler, its result, the jti presented, the
\* jti of the refresh token minted (NoJti when none was), the count returned;
\* for a bare decoder call, the payload it returned.
NoLast == [op |-> "", res |-> Ok, jti |-> NoJti, new |-> NoJti, count |-> 0,
           body |-> NoJti, payload |-> NoPayload,
           genuine |-> FALSE, replay |-> FALSE, dead |-> FALSE]

\* No response is waiting to be delivered.
Quiet == last = NoLast
Idle(p) == pc[p] = "idle" /\ Quiet
At(p, label) == pc[p] = label /\ Quiet
AllIdle == \A p \in Procs : pc[p] = "idle"

\* Workers that will still call create_token_pair.
WillMint == {q \in Procs : pc[q] \in {"reg_create", "login_update", "rf_validate"}}
CanMint == nextJti + 2 * Cardinality(WillMint) + 1 <= MaxJti

\* Ledger rows that are not revoked.
Unrevoked(j) == j \in DOMAIN ledger /\ ~ledger[j].is_revoked

\* Tokens a client can present: the ones the server returned; one of them
\* re-signed under a key that is neither secret; and tokens signed with the
\* refresh secret by someone who knows it (a returned refresh token with
\* another exp, a refresh-class token carrying the jti of an access token).
OtherKey(t) == [t EXCEPT !.sig = "attacker-key"]
Restamped(t) == [t EXCEPT !.exp = t.exp + Minutes(1)]
Recast(t) == [t EXCEPT !.sig = REFRESH_SECRET_KEY, !.type = "refresh"]
Offered ==
    issued \cup {OtherKey(t) : t \in {u \in issued : u.jti <= 2}}
           \cup {Restamped(t) : t \in {u \in issued : u.type = "refresh"}}
           \cup {Recast(t) : t \in {u \in issued : u.type = "access"}}
Headers == [scheme : {"Bearer"}, token : Offered \cup {NoToken}]
               \cup [scheme : {"Basic"}, token : {NoToken}]

Respond(p, r, res, count) ==
    /\ pc' = [pc EXCEPT ![p] = "idle"]
    /\ req' = [req EXCEPT ![p] = NoReq]
    /\ last' = [op |-> r.op, res |-> res, jti |-> r.tok.jti,
                new |-> r.new.jti, count |-> count, body |-> r.body,
                payload |-> NoPayload,
                genuine |-> r.genuine, replay |-> r.replay, dead |-> r.dead]

Continue(p, r, next) ==
    /\ pc' = [pc EXCEPT ![p] = next]
    /\ req' = [req EXCEPT ![p] = r]
    /\ last' = NoLast

\* create_token_pair(email): two fresh uuid4 jtis, exp from the clock.
Minted(r, email) ==
    [r EXCEPT !.acc = create_access_token(email, now, nextJti),
              !.new = create_refresh_token(email, now, nextJti + 1)]

(* --------------------------- /register --------------------------------- *)
StartRegister(p, email, password) ==
    /\ Idle(p)
    /\ LET r == [NoReq EXCEPT !.op = "register", !.email = email, !.password = password]
       IN IF get_user_by_email(users, email) # NoUser
          THEN Respond(p, r, EmailAlreadyRegistered, 0)
          ELSE CanMint /\ Continue(p, r, "reg_create")
    /\ UNCHANGED <<now, ticks, tz, collation, model, history, analysis, users, ledger, blacklist, nextJti, issued, wins, parent, killed, loggedOut>>

\* create_user's INSERT and commit (users.email is unique), then create_token_pair.
RegisterCreate(p) ==
    /\ At(p, "reg_create")
    /\ IF \E k \in DOMAIN users : Matches(k, req[p].email)
       THEN /\ Respond(p, req[p], InternalServerError, 0)
            /\ UNCHANGED <<users, nextJti>>
       ELSE /\ users' = create_user(users, req[p].email, req[p].password)
            /\ nextJti' = nextJti + 2
            /\ Continue(p, Minted([req[p] EXCEPT !.password = ""], req[p].email), "reg_store")
    /\ UNCHANGED <<now, ticks, tz, collation, model, history, analysis, ledger, blacklist, issued, wins, parent, killed, loggedOut>>

\* store_refresh_token and the response; shared by /register and /login.
StoreAndReturn(p) ==
    /\ ledger' = store_refresh_token(ledger, req[p].new.jti, req[p].email, req[p].new,
                                     now + Days(REFRESH_TOKEN_EXPIRE_DAYS))
    /\ issued' = issued \cup {req[p].acc, req[p].new}
    /\ Respond(p, req[p], Ok, 0)
    /\ UNCHANGED <<now, ticks, tz, collation, model, history, analysis, users, blacklist, nextJti, wins, parent, killed, loggedOut>>

RegisterStore(p) == At(p, "reg_store") /\ StoreAndReturn(p)

(* ----------------------------- /login ---------------------------------- *)
\* A /login that looks at is_active before it verifies the password
StartLogin_ActiveFirst(p, email, password) ==
    /\ Idle(p)
    /\ LET r == [NoReq EXCEPT !.op = "login", !.email = email]
           user == get_user_by_email(users, email)
       IN IF user = NoUser
          THEN Respond(p, r, InvalidEmailOrPassword, 0)
          ELSE IF ~user.is_active
          THEN Respond(p, r, AccountIsDisabled, 0)
          ELSE IF ~verify_password(password, user.password_hash)
          THEN Respond(p, r, InvalidEmailOrPassword, 0)
          ELSE CanMint /\ Continue(p, [r EXCEPT !.email = user.email], "login_update")
    /\ UNCHANGED <<now, ticks, tz, collation, model, history, analysis, users, ledger, blacklist, nextJti, issued, wins, parent, killed, loggedOut>>

StartLogin(p, email, password) ==
    /\ Idle(p)
    /\ LET r == [NoReq EXCEPT !.op = "login", !.email = email]
           user == get_user_by_email(users, email)
       IN IF user = NoUser
          THEN Respond(p, r, InvalidEmailOrPassword, 0)
          ELSE IF ~verify_password(password, user.password_hash)
          THEN Respond(p, r, InvalidEmailOrPassword, 0)
          ELSE IF ~user.is_active
          THEN Respond(p, r, AccountIsDisabled, 0)
          ELSE CanMint /\ Continue(p, [r EXCEPT !.email = user.email], "login_update")
    /\ UNCHANGED <<now, ticks, tz, collation, model, history, analysis, users, ledger, blacklist, nextJti, issued, wins, parent, killed, loggedOut>>

\* update_last_login's commit, then create_token_pair.
LoginUpdate(p) ==
    /\ At(p, "login_update")
    /\ users' = update_last_login(users, req[p].email, now)
    /\ nextJti' = nextJti + 2
    /\ Continue(p, Minted(req[p], req[p].email), "login_store")
    /\ UNCHANGED <<now, ticks, tz, collation, model, history, analysis, ledger, blacklist, issued, wins, parent, killed, loggedOut>>

LoginStore(p) == At(p, "login_store") /\ StoreAndReturn(p)

(* ---------------------------- /refresh --------------------------------- *)
\* decode_refresh_token and the blacklist lookup.
StartRefresh(p, token) ==
    /\ Idle(p)
    /\ LET payload == decode_refresh_token(token, now)
           r == [NoReq EXCEPT !.op = "refresh", !.tok = token,
                    !.genuine = (token \in issued /\ token.type = "refresh"),
                    !.replay = (token \in issued /\ wins[token.jti] > 0),
                    !.dead = (token \in issued /\ token.jti \in killed)]
       IN IF payload = NoPayload
          THEN Respond(p, r, InvalidOrExpiredRefresh, 0)
          ELSE IF payload.jti # NoJti /\ is_token_blacklisted(blacklist, payload.jti)
          THEN Respond(p, r, TokenHasBeenRevoked, 0)
          ELSE CanMint /\ Continue(p, r, "rf_validate")
    /\ UNCHANGED <<now, ticks, tz, collation, model, history, analysis, users, ledger, blacklist, nextJti, issued, wins, parent, killed, loggedOut>>

\* A /refresh that rotates without looking the user up
RefreshValidate_NoUserCheck(p) ==
    /\ At(p, "rf_validate")
    /\ IF ~validate_refresh_token(ledger, req[p].tok.jti, req[p].tok, now)
       THEN Respond(p, req[p], InvalidOrRevokedRefresh, 0) /\ UNCHANGED nextJti
       ELSE /\ nextJti' = nextJti + 2
            /\ Continue(p, Minted(req[p], req[p].tok.sub), "rf_rotate")
    /\ UNCHANGED <<now, ticks, tz, collation, model, history, analysis, users, ledger, blacklist, issued, wins, parent, killed, loggedOut>>

\* validate_refresh_token, get_user_by_email, then create_token_pair.
RefreshValidate(p) ==
    /\ At(p, "rf_validate")
    /\ LET user == get_user_by_email(users, req[p].tok.sub)
       IN IF ~validate_refresh_token(ledger, req[p].tok.jti, req[p].tok, now)
          THEN Respond(p, req[p], InvalidOrRevokedRefresh, 0) /\ UNCHANGED nextJti
          ELSE IF user = NoUser \/ ~user.is_active
          THEN Respond(p, req[p], UserNotFoundOrInactive, 0) /\ UNCHANGED nextJti
          ELSE /\ nextJti' = nextJti + 2
               /\ Continue(p, Minted(req[p], req[p].tok.sub), "rf_rotate")
    /\ UNCHANGED <<now, ticks, tz, collation, model, history, analysis, users, ledger, blacklist, issued, wins, parent, killed, loggedOut>>

\* rotate_refresh_token (its lookup of the old row, its UPDATE and INSERT in
\* one commit) and the response.
RefreshRotate(p) ==
    /\ At(p, "rf_rotate")
    /\ LET r == req[p]
       IN /\ ledger' = rotate_refresh_token(ledger, r.tok.jti, r.new.jti, r.tok.sub, r.new,
                                            now + Days(REFRESH_TOKEN_EXPIRE_DAYS), now)
          /\ issued' = issued \cup {r.acc, r.new}
          /\ wins' = [wins EXCEPT ![r.tok.jti] = @ + 1]
          /\ parent' = [parent EXCEPT ![r.new.jti] = r.tok.jti]
          /\ Respond(p, r, Ok, 0)
    /\ UNCHANGED <<now, ticks, tz, collation, model, history, analysis, users, blacklist, nextJti, killed, loggedOut>>

(* ----------------------------- /logout --------------------------------- *)
\* token_blacklist.jti is unique: the INSERT of a jti already present raises.
BlacklistInsertRaises(bl, jti) == jti \in DOMAIN bl

\* A /logout that answers a repeated jti as a revoked token
LogoutOutcome_Conflict(raised) == IF raised THEN TokenHasBeenRevoked ELSE Ok

\* A /logout that lets the exception of its INSERT reach the caller
LogoutOutcome_Propagates(raised) == IF raised THEN InternalServerError ELSE Ok

\* "except Exception: pass", then the success response.
LogoutOutcome(raised) == Ok

\* The Authorization header is absent.
NoHeader == [scheme |-> "", token |-> NoToken]

\* What a client may send in the body of /logout: nothing, or the refresh
\* token it received in the same pair as the access token of the header
\* (create_token_pair mints the two with consecutive jtis here).
Bodies(authorization) ==
    {NoToken} \cup {t \in issued : /\ t.type = "refresh"
                                   /\ authorization.token \in issued
                                   /\ t.jti = authorization.token.jti + 1}

\* The handler reads the header only (a body is ignored) and has one
\* database statement: blacklist_token's INSERT, with
\* expires_at = datetime.fromtimestamp(exp), the server's local time.
Logout(p, authorization, refresh_token) ==
    /\ Idle(p)
    /\ LET payload == decode_access_token(authorization.token, now)
           r == [NoReq EXCEPT !.op = "logout", !.body = refresh_token.jti]
       IN IF authorization.scheme = "Bearer" /\ payload # NoPayload /\ payload.jti # NoJti
          THEN LET raised == BlacklistInsertRaises(blacklist, payload.jti)
               IN /\ raised \/ Cardinality(loggedOut) < MaxLogouts
                  /\ blacklist' = IF raised THEN blacklist
                                  ELSE blacklist_token(blacklist, payload.jti, "access",
                                                       payload.exp + tz, payload.sub)
                  /\ loggedOut' = IF raised THEN loggedOut ELSE loggedOut \cup {payload.jti}
                  /\ Respond(p, [r EXCEPT !.tok = authorization.token],
                             LogoutOutcome(raised), IF raised THEN 0 ELSE 1)
          ELSE /\ UNCHANGED <<blacklist, loggedOut>>
               /\ Respond(p, r, LogoutOutcome(FALSE), 0)
    /\ UNCHANGED <<now, ticks, tz, collation, model, history, analysis, users, ledger, nextJti, issued, wins, parent, killed>>

(* --------------------------- /logout/all ------------------------------- *)
\* The header check, decode_access_token and the blacklist lookup.
StartLogoutAll(p, authorization) ==
    /\ Idle(p)
    /\ LET payload == decode_access_token(authorization.token, now)
           r == [NoReq EXCEPT !.op = "logout_all"]
       IN IF authorization.scheme # "Bearer"
          THEN Respond(p, r, InvalidAuthorizationHeader, 0)
          ELSE IF payload = NoPayload
          THEN Respond(p, r, InvalidOrExpiredAccess, 0)
          ELSE IF payload.jti # NoJti /\ is_token_blacklisted(blacklist, payload.jti)
          THEN Respond(p, [r EXCEPT !.tok = authorization.token], TokenHasBeenRevoked, 0)
          ELSE Continue(p, [r EXCEPT !.tok = authorization.token], "la_revoke")
    /\ UNCHANGED <<now, ticks, tz, collation, model, history, analysis, users, ledger, blacklist, nextJti, issued, wins, parent, killed, loggedOut>>

\* A bulk revoke that also blacklists the access token of the header
LogoutAllRevoke_Blacklists(p) ==
    /\ At(p, "la_revoke")
    /\ LET email == req[p].tok.sub
       IN /\ ledger' = revoke_all_user_tokens(ledger, email, now)
          /\ killed' = killed \cup {j \in DOMAIN ledger : ledger[j].user_email = email}
          /\ blacklist' = blacklist_token(blacklist, req[p].tok.jti, "access",
                                         req[p].tok.exp, email)
          /\ Respond(p, req[p], Ok, Cardinality(RevokeAllMatches(ledger, email)))
    /\ UNCHANGED <<now, ticks, tz, collation, model, history, analysis, users, nextJti, issued, wins, parent, loggedOut>>

LogoutAllRevoke(p) ==
    /\ At(p, "la_revoke")
    /\ LET email == req[p].tok.sub
       IN /\ ledger' = revoke_all_user_tokens(ledger, email, now)
          /\ killed' = killed \cup {j \in DOMAIN ledger : ledger[j].user_email = email}
          /\ Respond(p, req[p], Ok, Cardinality(RevokeAllMatches(ledger, email)))
    /\ UNCHANGED <<now, ticks, tz, collation, model, history, analysis, users, blacklist, nextJti, issued, wins, parent, loggedOut>>

(* ----------------------------- /analyze -------------------------------- *)
\* rows analysis_history may hold in one run
MaxAnalyses == 3

\* What load_artifacts leaves in the globals model and scaler: the unpickled
\* objects, or None when the files were not found.
None == "None"
Loaded == "xgboost_model.pkl"
Artifacts == {None, Loaded}

\* A string of the request is the sequence of its pieces: an optional prefix
\* and the name that follows it.
UrlPrefixes == {"https://instagram.com/", "instagr.am/"}
\* names that match ^[a-zA-Z0-9._]+$
WellFormed == {"alice", "bob"}
AnalyzeInputs ==
    {<<"alice">>, <<"@", "alice">>, <<"https://instagram.com/", "alice">>,
     <<"bob">>, <<"al ice">>}
\* JSON bodies of POST /analyze
AnalyzeBodies ==
    [input : AnalyzeInputs] \cup [input : AnalyzeInputs, force_refresh : BOOLEAN]

\* pydantic keeps the declared fields of the model and ignores the others.
InstagramScrapeRequest(body) == [input |-> body.input]

\* Python's getattr(obj, name, default).
getattr(obj, name, default) ==
    IF name \in DOMAIN obj THEN obj[name] ELSE default

ValueError == [type |-> "ValueError", username |-> ""]

RECURSIVE lstrip(_)
lstrip(s) == IF s # <<>> /\ Head(s) = "@" THEN lstrip(Tail(s)) ELSE s

classify_input(user_input) ==
    IF Len(user_input) = 2 /\ Head(user_input) \in UrlPrefixes
    THEN [type |-> "url", username |-> user_input[2]]
    ELSE LET username == lstrip(user_input)
         IN  IF Len(username) = 1 /\ username[1] \in WellFormed
             THEN [type |-> "username", username |-> username[1]]
             ELSE ValueError

\* risk scores of the classifier, in tenths
RiskScores == {2, 7}
\* how parse_instagram_input and the prediction end
ScrapeOutcomes ==
    {[raises |-> "", risk_score |-> r] : r \in RiskScores}
       \cup {[raises |-> e, risk_score |-> NoTime] : e \in {"ValueError", "Exception"}}

Prediction(risk_score) ==
    IF risk_score >= 5 THEN "Fake Account" ELSE "Real Account"

\* The rows get_latest_analysis_by_username may return: ORDER BY analyzed_at
\* DESC picks any of the rows of the username with the greatest analyzed_at.
get_latest_analysis_by_username(username) ==
    {i \in DOMAIN history :
        /\ history[i].username = username
        /\ \A k \in DOMAIN history :
              history[k].username = username
                  => history[k].analyzed_at <= history[i].analyzed_at}

create_analysis(input_url, username, risk_score) ==
    Append(history, [input_url |-> input_url, username |-> username,
                     prediction |-> Prediction(risk_score),
                     risk_score |-> risk_score, analyzed_at |-> now])

\* The response of /analyze, with what the handler did on the way: the body
\* it got, the row it answered from (0: none), whether it called the scraper.
Answer(body, status, username, risk_score, row, scraped) ==
    [status |-> status, body |-> body, username |-> username,
     prediction |-> IF risk_score = NoTime THEN "" ELSE Prediction(risk_score),
     risk_score |-> risk_score, row |-> row, scraped |-> scraped,
     before |-> history]
NoAnalysis ==
    [status |-> 0, body |-> [input |-> <<>>], username |-> "",
     prediction |-> "", risk_score |-> NoTime, row |-> 0, scraped |-> FALSE,
     before |-> <<>>]

\* POST /analyze; `outcome` is what the scraper and the classifier give if
\* they are called, `saved` whether create_analysis commits.
Analyze(body, outcome, saved) ==
    /\ Quiet /\ AllIdle
    /\ LET request == InstagramScrapeRequest(body)
           c == classify_input(request.input)
           force_refresh == getattr(request, "force_refresh", FALSE)
           cached == IF force_refresh THEN {}
                     ELSE get_latest_analysis_by_username(c.username)
       IN  IF model = None
           THEN /\ analysis' = Answer(body, 503, "", NoTime, 0, FALSE)
                /\ UNCHANGED history
           ELSE IF c = ValueError
           THEN /\ analysis' = Answer(body, 400, "", NoTime, 0, FALSE)
                /\ UNCHANGED history
           ELSE IF cached # {}
           THEN /\ \E i \in cached :
                      analysis' = Answer(body, 200, c.username,
                                         history[i].risk_score, i, FALSE)
                /\ UNCHANGED history
           ELSE IF outcome.raises # ""
           THEN /\ analysis' = Answer(body,
                                      IF outcome.raises = "ValueError" THEN 400 ELSE 500,
                                      c.username, NoTime, 0, TRUE)
                /\ UNCHANGED history
           ELSE /\ saved => Len(history) < MaxAnalyses
                /\ history' = IF saved
                              THEN create_analysis(request.input, c.username,
                                                   outcome.risk_score)
                              ELSE history
                /\ analysis' = Answer(body, 200, c.username,
                                   outcome.risk_score, 0, TRUE)
    /\ UNCHANGED <<now, ticks, tz, collation, model, users, ledger, blacklist, nextJti, issued, pc, req, last, wins, parent, killed, loggedOut>>

(* --------------------------- housekeeping ------------------------------ *)
CleanupBlacklist ==
    /\ Quiet
    /\ blacklist' = cleanup_expired_blacklist(blacklist, now)
    /\ blacklist' # blacklist
    /\ last' = NoLast
    /\ UNCHANGED <<now, ticks, tz, collation, model, history, analysis, users, ledger, nextJti, issued, pc, req, wins, parent, killed, loggedOut>>

CleanupRefreshTokens ==
    /\ Quiet
    /\ ledger' = cleanup_expired_refresh_tokens(ledger, now)
    /\ ledger' # ledger
    /\ last' = NoLast
    /\ UNCHANGED <<now, ticks, tz, collation, model, history, analysis, users, blacklist, nextJti, issued, pc, req, wins, parent, killed, loggedOut>>

Tick ==
    /\ Quiet
    /\ ticks < MaxTicks
    /\ \E d \in TickSteps : now' = now + d
    /\ ticks' = ticks + 1
    /\ last' = NoLast
    /\ UNCHANGED <<tz, collation, model, history, analysis, users, ledger, blacklist, nextJti, issued, pc, req, wins, parent, killed, loggedOut>>

\* The response reaches the client.
Deliver ==
    /\ ~Quiet
    /\ last' = NoLast
    /\ UNCHANGED <<now, ticks, tz, collation, model, history, analysis, users, ledger, blacklist, nextJti, issued, pc, req, wins, parent, killed, loggedOut>>

(* --------------------------- specification ----------------------------- *)
\* Empty tables, idle workers, the clock at its origin.
Start ==
    /\ now = 0
    /\ ticks = 0
    /\ users = <<>>
    /\ ledger = <<>>
    /\ blacklist = <<>>
    /\ nextJti = 1
    /\ issued = {}
    /\ pc = [p \in Procs |-> "idle"]
    /\ req = [p \in Procs |-> NoReq]
    /\ last = NoLast
    /\ wins = [j \in Jtis |-> 0]
    /\ parent = [j \in Jtis |-> NoJti]
    /\ killed = {}
    /\ loggedOut = {}
    /\ history = <<>>
    /\ analysis = NoAnalysis

\* The emails of Spec and SeqSpec differ in more than the case of a letter,
\* so the two collations give the same behaviours there.
Init == Start /\ tz \in TzOffsets /\ collation = "binary" /\ model = Loaded

\* A request reaches worker p; new accounts are registered for `emails`.
Arrive(p, emails) ==
    \/ \E e \in emails, pw \in RegisterPasswords : StartRegister(p, e, pw)
    \/ \E e \in Emails, pw \in Passwords : StartLogin(p, e, pw)
    \/ \E t \in Offered : StartRefresh(p, t)
    \/ \E h \in Headers \cup {NoHeader} : \E t \in Bodies(h) : Logout(p, h, t)
    \/ \E h \in Headers : StartLogoutAll(p, h)

\* Worker p runs the next statement of its handler.
Proceed(p) ==
    \/ RegisterCreate(p)
    \/ RegisterStore(p)
    \/ LoginUpdate(p)
    \/ LoginStore(p)
    \/ RefreshValidate(p)
    \/ RefreshRotate(p)
    \/ LogoutAllRevoke(p)

\* Concurrent requests: the workers interleave statement by statement, with
\* cleanups and clock advances anywhere; accounts are registered for one email.
Next ==
    \/ \E p \in Procs : Arrive(p, ConcurrentEmails)
    \/ \E p \in Procs : Proceed(p)
    \/ Deliver
    \/ CleanupBlacklist
    \/ CleanupRefreshTokens
    \/ Tick

Spec == Init /\ [][Next]_vars

\* One request at a time, on one worker: a request or a cleanup starts only
\* when no handler is running; accounts are registered for every email.
SeqNext ==
    \/ AllIdle /\ Arrive(SeqWorker, Emails)
    \/ Proceed(SeqWorker)
    \/ Deliver
    \/ AllIdle /\ CleanupBlacklist
    \/ AllIdle /\ CleanupRefreshTokens
    \/ Tick

SeqSpec == Init /\ [][SeqNext]_vars

(* --------------------------- store failures --------------------------- *)
\* What the client gets when an exception leaves a handler: no token.
Failed(r) == [r EXCEPT !.acc = NoToken, !.new = NoToken]

\* store_refresh_token raises in /register or /login (the database refuses
\* the INSERT or the connection is lost): the commits made before it stay.
StoreFails(p) ==
    /\ Respond(p, Failed(req[p]), InternalServerError, 0)
    /\ UNCHANGED <<now, ticks, tz, collation, model, history, analysis, users, ledger, blacklist, nextJti, issued, wins, parent, killed, loggedOut>>

RegisterStoreFails(p) == At(p, "reg_store") /\ StoreFails(p)

LoginStoreFails(p) == At(p, "login_store") /\ StoreFails(p)

\* A /refresh that answers with the new pair although the rotation raised
RefreshRotateFails_Swallowed(p, committed) ==
    /\ At(p, "rf_rotate")
    /\ ~committed
    /\ issued' = issued \cup {req[p].acc, req[p].new}
    /\ Respond(p, req[p], Ok, 0)
    /\ UNCHANGED <<now, ticks, tz, collation, model, history, analysis, users, ledger, blacklist, nextJti, wins, parent, killed, loggedOut>>

\* rotate_refresh_token raises: at its one commit, which then persists
\* neither the mark nor the new row, or after it, at db.refresh, with both
\* persisted. Nothing catches the exception.
RefreshRotateFails(p, committed) ==
    /\ At(p, "rf_rotate")
    /\ LET r == req[p]
       IN /\ ledger' = IF committed
                       THEN rotate_refresh_token(ledger, r.tok.jti, r.new.jti, r.tok.sub, r.new,
                                                 now + Days(REFRESH_TOKEN_EXPIRE_DAYS), now)
                       ELSE ledger
          /\ parent' = IF committed THEN [parent EXCEPT ![r.new.jti] = r.tok.jti] ELSE parent
          /\ Respond(p, Failed(r), InternalServerError, 0)
    /\ UNCHANGED <<now, ticks, tz, collation, model, history, analysis, users, blacklist, nextJti, issued, wins, killed, loggedOut>>

(* ------------------------ account administration ----------------------- *)
\* No handler clears is_active or deletes a row of users; an operator does,
\* in the database, between two requests.
DisableUser(email) ==
    /\ Quiet /\ AllIdle
    /\ email \in DOMAIN users /\ users[email].is_active
    /\ users' = [users EXCEPT ![email].is_active = FALSE]
    /\ UNCHANGED <<now, ticks, tz, collation, model, history, analysis, ledger, blacklist, nextJti, issued, pc, req, last, wins, parent, killed, loggedOut>>

DeleteUser(email) ==
    /\ Quiet /\ AllIdle
    /\ email \in DOMAIN users
    /\ users' = [k \in DOMAIN users \ {email} |-> users[k]]
    /\ UNCHANGED <<now, ticks, tz, collation, model, history, analysis, ledger, blacklist, nextJti, issued, pc, req, last, wins, parent, killed, loggedOut>>

\* Two spellings of one mailbox, and the ways a database compares them.
CaseEmails == {"a@x.com", "A@x.com"}
Collations == {"binary", "nocase"}

AccountInit == Start /\ tz = 0 /\ collation \in Collations /\ model = Loaded

\* A returned refresh token whose type claim is rewritten by someone who
\* knows the refresh secret.
Retyped(t) == [t EXCEPT !.type = "access"]
AccountOffered == Offered \cup {Retyped(t) : t \in {u \in issued : u.type = "refresh"}}

AccountArrive(p) ==
    \/ \E e \in CaseEmails, pw \in RegisterPasswords : StartRegister(p, e, pw)
    \/ \E e \in CaseEmails, pw \in Passwords : StartLogin(p, e, pw)
    \/ \E t \in AccountOffered : StartRefresh(p, t)

AccountProceed(p) ==
    \/ RegisterCreate(p)
    \/ RegisterStore(p)
    \/ RegisterStoreFails(p)
    \/ LoginUpdate(p)
    \/ LoginStore(p)
    \/ LoginStoreFails(p)
    \/ RefreshValidate(p)
    \/ RefreshRotate(p)
    \/ \E committed \in BOOLEAN : RefreshRotateFails(p, committed)

\* One request at a time for accounts whose emails differ in case only, under
\* either collation, with an operator disabling and deleting accounts, the
\* clock advancing, and the writes to the ledger liable to fail.
AccountNext ==
    \/ AllIdle /\ AccountArrive(SeqWorker)
    \/ AccountProceed(SeqWorker)
    \/ Deliver
    \/ \E e \in CaseEmails : DisableUser(e)
    \/ \E e \in CaseEmails : DeleteUser(e)
    \/ Tick

AccountSpec == AccountInit /\ [][AccountNext]_vars

(* --------------------------- token decoding ---------------------------- *)
\* A returned access token whose type claim is rewritten by someone who
\* knows the access secret.
Relabelled(t) == [t EXCEPT !.type = "refresh"]
TokenOffered == AccountOffered \cup {Relabelled(t) : t \in {u \in issued : u.type = "access"}}
TokenHeaders == [scheme : {"Bearer"}, token : TokenOffered]

\* get_token_jti's choice of decoder by token_type, applied to a token at
\* the present clock.
DecodeAs(token, token_type) ==
    IF token_type = "access"
    THEN decode_access_token(token, now)
    ELSE decode_refresh_token(token, now)

VerifyToken(p, token, token_type) ==
    /\ Idle(p)
    /\ last' = [NoLast EXCEPT !.op = "verify", !.jti = token.jti,
                              !.payload = DecodeAs(token, token_type)]
    /\ UNCHANGED <<now, ticks, tz, collation, model, history, analysis, users, ledger, blacklist, nextJti, issued, pc, req, wins, parent, killed, loggedOut>>

\* The clock advances by a minute, by the lifetime of an access token or by
\* the lifetime of a refresh token.
TokenSteps ==
    {Minutes(1), Minutes(ACCESS_TOKEN_EXPIRE_MINUTES), Days(REFRESH_TOKEN_EXPIRE_DAYS)}

Advance ==
    /\ Quiet
    /\ ticks < MaxAdvances
    /\ \E d \in TokenSteps : now' = now + d
    /\ ticks' = ticks + 1
    /\ last' = NoLast
    /\ UNCHANGED <<tz, collation, model, history, analysis, users, ledger, blacklist, nextJti, issued, pc, req, wins, parent, killed, loggedOut>>

TokenInit == Start /\ tz = 0 /\ collation = "binary" /\ model = Loaded

TokenArrive(p) ==
    \/ \E e \in ConcurrentEmails, pw \in RegisterPasswords : StartRegister(p, e, pw)
    \/ \E t \in TokenOffered : StartRefresh(p, t)
    \/ \E h \in TokenHeaders : Logout(p, h, NoToken)
    \/ \E h \in TokenHeaders : StartLogoutAll(p, h)
    \/ \E t \in TokenOffered, c \in {"access", "refresh"} : VerifyToken(p, t, c)

\* One request at a time for one account and the tokens that descend from
\* its registration, every token also handed to the
\* two decoders, the clock advancing in steps that land on a token's exp and
\* on the minute after it.
TokenProceed(p) ==
    \/ RegisterCreate(p)
    \/ RegisterStore(p)
    \/ RefreshValidate(p)
    \/ RefreshRotate(p)
    \/ LogoutAllRevoke(p)

TokenNext ==
    \/ AllIdle /\ TokenArrive(SeqWorker)
    \/ TokenProceed(SeqWorker)
    \/ Deliver
    \/ Advance

TokenSpec == TokenInit /\ [][TokenNext]_vars

(* ---------------------------- end of life ------------------------------ *)
\* The clock advances by one unit, less than the step between two timestamps
\* of a JWT, or by the lifetime of a refresh token, less one unit or whole.
ExpirySteps ==
    {1, Days(REFRESH_TOKEN_EXPIRE_DAYS) - 1, Days(REFRESH_TOKEN_EXPIRE_DAYS)}

Instant ==
    /\ Quiet
    /\ ticks < MaxInstants
    /\ \E d \in ExpirySteps : now' = now + d
    /\ ticks' = ticks + 1
    /\ last' = NoLast
    /\ UNCHANGED <<tz, collation, model, history, analysis, users, ledger, blacklist, nextJti, issued, pc, req, wins, parent, killed, loggedOut>>

ExpiryArrive(p) ==
    \/ \E e \in ConcurrentEmails, pw \in RegisterPasswords : StartRegister(p, e, pw)
    \/ \E e \in ConcurrentEmails, pw \in RegisterPasswords : StartLogin(p, e, pw)
    \/ \E t \in issued : StartRefresh(p, t)

ExpiryProceed(p) ==
    \/ RegisterCreate(p)
    \/ RegisterStore(p)
    \/ LoginUpdate(p)
    \/ LoginStore(p)
    \/ RefreshValidate(p)
    \/ RefreshRotate(p)

\* One account's refresh tokens from the moment they are minted to the end
\* of their life, one request at a time, the clock moving between any two
\* statements and the cleanup of the ledger running between requests.
ExpiryNext ==
    \/ AllIdle /\ ExpiryArrive(SeqWorker)
    \/ ExpiryProceed(SeqWorker)
    \/ Deliver
    \/ AllIdle /\ CleanupRefreshTokens
    \/ Instant

ExpirySpec == TokenInit /\ [][ExpiryNext]_vars

(* ---------------------------- credentials ------------------------------ *)
\* Passwords an account is registered with, and passwords tried at /login.
CredentialRegister == {"pw1", Long72}
CredentialLogin == {"pw1", "pw2", Long72, Longer}
CredentialHeaders == [scheme : {"Bearer"}, token : issued]

CredentialArrive(p) ==
    \/ \E e \in ConcurrentEmails, pw \in CredentialRegister : StartRegister(p, e, pw)
    \/ \E e \in Emails, pw \in CredentialLogin : StartLogin(p, e, pw)
    \/ \E t \in issued : StartRefresh(p, t)
    \/ \E h \in CredentialHeaders : Logout(p, h, NoToken)
    \/ \E h \in CredentialHeaders : StartLogoutAll(p, h)

\* One account registered with a short or a long password, then every
\* operation on it one request at a time, with cleanups and the clock
\* advancing between requests.
CredentialNext ==
    \/ AllIdle /\ CredentialArrive(SeqWorker)
    \/ Proceed(SeqWorker)
    \/ Deliver
    \/ AllIdle /\ CleanupBlacklist
    \/ AllIdle /\ CleanupRefreshTokens
    \/ Tick

CredentialSpec == TokenInit /\ [][CredentialNext]_vars

(* ------------------------- single revocation --------------------------- *)
\* How a Python bool reads in the record of a call.
PyBool(b) == [status |-> 0, detail |-> IF b THEN "True" ELSE "False"]

\* A call of crud.revoke_refresh_token(db, jti), which no handler makes, on
\* the ledger as the handlers have left it.
RevokeRefreshToken(jti) ==
    /\ Quiet /\ AllIdle
    /\ ledger' = revoke_refresh_token(ledger, jti, now)
    /\ last' = [NoLast EXCEPT !.op = "revoke", !.jti = jti,
                              !.res = PyBool(RevokeReturns(ledger, jti))]
    /\ UNCHANGED <<now, ticks, tz, collation, model, history, analysis, users, blacklist, nextJti, issued, pc, req, wins, parent, killed, loggedOut>>

RevokeArrive(p) ==
    \/ \E e \in ConcurrentEmails, pw \in RegisterPasswords : StartRegister(p, e, pw)
    \/ \E t \in issued : StartRefresh(p, t)

RevokeProceed(p) ==
    \/ RegisterCreate(p)
    \/ RegisterStore(p)
    \/ RefreshValidate(p)
    \/ RefreshRotate(p)

\* One account's ledger rows, stored and rotated one request at a time, and
\* revoke_refresh_token called between requests with any jti.
RevokeNext ==
    \/ AllIdle /\ RevokeArrive(SeqWorker)
    \/ RevokeProceed(SeqWorker)
    \/ Deliver
    \/ \E j \in Jtis : RevokeRefreshToken(j)
    \/ Tick

RevokeSpec == TokenInit /\ [][RevokeNext]_vars

(* ------------------------- profile analysis ---------------------------- *)
\* POST /analyze alone: any body, any outcome of the scraper, the model files
\* found or not at start-up, and the clock moving between requests.
AnalyzeInit == Start /\ tz = 0 /\ collation = "binary" /\ model \in Artifacts

AnalyzeNext ==
    \/ \E body \in AnalyzeBodies, outcome \in ScrapeOutcomes, saved \in BOOLEAN :
          Analyze(body, outcome, saved)
    \/ Tick

AnalyzeSpec == AnalyzeInit /\ [][AnalyzeNext]_vars

(* ------------------------------ properties ----------------------------- *)
\* The token the server returned under jti j.
IssuedToken(j) == CHOOSE t \in issued : t.jti = j

\* The /refresh response just sent.
Refreshed == last.op = "refresh"

\* The token presented to it had not yet expired when the response was sent.
InTime == last.genuine /\ ~(IssuedToken(last.jti).exp < now)

\* C1 (as stated): with one request at a time, the first /refresh with a
\* refresh token the server returned (no /logout/all since, not expired)
\* succeeds and mints a new pair, and every later /refresh with the same
\* token fails with TokenRevoked and mints nothing.
C1_SingleUseAsStated ==
    Refreshed =>
        /\ (last.genuine /\ ~last.replay /\ ~last.dead /\ InTime
                => last.res = Ok /\ last.new # NoJti)
        /\ (last.replay => last.res \in TokenRevoked /\ last.new = NoJti)

\* C1 (amended): the first /refresh succeeds as above; every later /refresh
\* with the same token fails and mints nothing, with TokenRevoked as long as
\* the token's exp has not passed and with InvalidToken or TokenRevoked after.
C1_SingleUse ==
    Refreshed =>
        /\ (last.genuine /\ ~last.replay /\ ~last.dead /\ InTime
                => last.res = Ok /\ last.new # NoJti)
        /\ (last.replay =>
                /\ last.new = NoJti
                /\ last.res \in TokenRevoked \cup InvalidToken
                /\ (InTime => last.res \in TokenRevoked)
                /\ (last.res \in InvalidToken => ~InTime))

\* A replay of an unexpired token has just been refused.
C1_Witness ==
    Refreshed /\ last.replay /\ InTime /\ last.res \in TokenRevoked

\* C2: of the /refresh requests racing on one refresh token, exactly one
\* succeeds: no token ever has two successful /refresh responses.
C2_ExactlyOneWins == \A j \in Jtis : wins[j] <= 1

\* The rows reached from row j through replaced_by links.
RECURSIVE ChainFrom(_)
ChainFrom(j) ==
    IF j \notin DOMAIN ledger THEN {}
    ELSE {j} \cup (IF ledger[j].replaced_by = NoJti THEN {}
                   ELSE ChainFrom(ledger[j].replaced_by))

\* C3: in every reachable state, whatever the interleaving, the rows linked
\* from one row through replaced_by hold at most one unrevoked row.
C3_ChainInvariant ==
    \A j \in DOMAIN ledger :
        Cardinality({k \in ChainFrom(j) : ~ledger[k].is_revoked}) <= 1

\* A chain of three rows from a /register or /login row, its last row live.
C3_Witness ==
    \E j \in DOMAIN ledger :
        /\ parent[j] = NoJti
        /\ Cardinality(ChainFrom(j)) = 3
        /\ \E k \in ChainFrom(j) : Unrevoked(k)

\* C4: with one request at a time, every token a successful /refresh
\* replaced has its row revoked with replaced_by naming its successor, the
\* token a /refresh has just returned is the live row of its line, and a
\* /refresh with a replaced token fails and mints nothing.
C4_ChainIntegrity ==
    /\ \A j \in Jtis :
          (parent[j] # NoJti /\ parent[j] \in DOMAIN ledger)
              => /\ ledger[parent[j]].is_revoked
                 /\ ledger[parent[j]].replaced_by = j
    /\ (Refreshed /\ last.res = Ok
          => Unrevoked(last.new) /\ parent[last.new] = last.jti)
    /\ (Refreshed /\ last.replay => last.res # Ok /\ last.new = NoJti)

\* After two refreshes from T0, a /refresh with T0 has just been refused:
\* T0 -> T1 -> T2 with only T2 live.
C4_Witness ==
    /\ Refreshed /\ last.replay /\ last.res # Ok
    /\ \E k \in DOMAIN ledger :
          /\ Unrevoked(k)
          /\ parent[k] # NoJti
          /\ parent[parent[k]] = last.jti
          /\ last.jti \in DOMAIN ledger
          /\ ledger[last.jti].replaced_by = parent[k]
          /\ ledger[parent[k]].replaced_by = k

\* A /refresh request is refused as revoked, nothing minted or written.
RefusedUnchanged(p) ==
    /\ pc'[p] = "idle"
    /\ last'.op = "refresh"
    /\ last'.res \in TokenRevoked
    /\ last'.new = NoJti
    /\ UNCHANGED <<ledger, blacklist, nextJti, issued>>

\* The token is signed with the refresh secret, of refresh type, unexpired.
PassesVerification(t) ==
    t.sig = REFRESH_SECRET_KEY /\ t.type = "refresh" /\ ~(t.exp < now)

NoLiveRow(j) ==
    j \notin DOMAIN ledger \/ ledger[j].is_revoked \/ ledger[j].expires_at < now

HashDiffers(t) ==
    t.jti \in DOMAIN ledger /\ ledger[t.jti].token_hash # <<"sha256", t>>

\* C5: a /refresh with a token that passes verification is refused with
\* TokenRevoked, mints nothing and leaves ledger and blacklist as they were,
\* whenever the token's jti is blacklisted (at the blacklist lookup), or the
\* ledger has no unrevoked, unexpired row for the jti or the row's hash
\* differs from the hash of the presented token (at the ledger lookup).
C5_RefreshRefused ==
    [][\A p \in Procs :
          /\ \A t \in IF Idle(p) /\ blacklist # <<>> THEN Offered ELSE {} :
                (PassesVerification(t) /\ t.jti \in DOMAIN blacklist /\ StartRefresh(p, t))
                    => RefusedUnchanged(p)
          /\ (/\ At(p, "rf_validate") /\ pc'[p] # "rf_validate"
              /\ NoLiveRow(req[p].tok.jti) \/ HashDiffers(req[p].tok)
              /\ RefreshValidate(p))
                => RefusedUnchanged(p)]_vars

\* A /refresh has just been refused although the row of its jti is live:
\* the presented token does not hash to what the row stores.
C5_Witness ==
    /\ Refreshed /\ last.res = InvalidOrRevokedRefresh
    /\ Unrevoked(last.jti)
    /\ ~(ledger[last.jti].expires_at < now)
    /\ AllIdle

\* C6: once a /logout with a valid access token has completed, a later
\* /logout/all with that token, still unexpired, fails with TokenRevoked.
C6_LogoutBlacklists ==
    (last.op = "logout_all" /\ last.jti \in loggedOut) => last.res \in TokenRevoked

\* C7: a jti a /logout has blacklisted stays blacklisted, whatever cleanups
\* run, for as long as the token's exp has not passed.
C7_BlacklistPermanence ==
    \A j \in loggedOut :
        ~(IssuedToken(j).exp < now) => is_token_blacklisted(blacklist, j)

\* The refresh token under jti j came from a /register or /login of a user
\* for whom a /logout/all had already run.
AfterLogoutAll(j) ==
    /\ parent[j] = NoJti
    /\ j \notin killed
    /\ \E k \in killed : IssuedToken(k).sub = IssuedToken(j).sub

\* The rows of the owner of the access token under jti a are all revoked.
AllRevokedFor(a) ==
    \A j \in DOMAIN ledger :
        ledger[j].user_email = IssuedToken(a).sub => ledger[j].is_revoked

\* C8 (as stated): with one request at a time, a /logout/all that succeeds
\* leaves every row of the user revoked, every later /refresh with one of
\* the refresh tokens it ran over fails with TokenRevoked, and a refresh
\* token from a later /login is accepted.
C8_LogoutAllAsStated ==
    /\ (last.op = "logout_all" /\ last.res = Ok => AllRevokedFor(last.jti))
    /\ (Refreshed /\ last.dead => last.res \in TokenRevoked /\ last.new = NoJti)
    /\ (Refreshed /\ last.genuine /\ ~last.replay /\ ~last.dead /\ InTime
            /\ AfterLogoutAll(last.jti)
          => last.res = Ok)

\* C8 (amended): as above, except that the later /refresh fails with
\* TokenRevoked as long as the token's exp has not passed and with
\* InvalidToken or TokenRevoked after.
C8_LogoutAll ==
    /\ (last.op = "logout_all" /\ last.res = Ok => AllRevokedFor(last.jti))
    /\ (Refreshed /\ last.dead =>
            /\ last.new = NoJti
            /\ last.res \in TokenRevoked \cup InvalidToken
            /\ (InTime => last.res \in TokenRevoked)
            /\ (last.res \in InvalidToken => ~InTime))
    /\ (Refreshed /\ last.genuine /\ ~last.replay /\ ~last.dead /\ InTime
            /\ AfterLogoutAll(last.jti)
          => last.res = Ok)

\* After a /logout/all over two sessions, a /refresh with one of their
\* unexpired tokens has just been refused.
C8_Witness ==
    /\ Refreshed /\ last.dead /\ InTime /\ last.res \in TokenRevoked
    /\ Cardinality(killed) >= 2

\* The row under jti j descends, through successful refreshes, from a row a
\* /logout/all ran over.
RECURSIVE Stale(_)
Stale(j) == j \in killed \/ (parent[j] # NoJti /\ Stale(parent[j]))

\* C9: once a /logout/all and every /refresh in flight with it have
\* finished, no row descending from a session it ran over is unrevoked.
C9_NoSurvivingSession ==
    AllIdle => \A j \in DOMAIN ledger : Stale(j) => ledger[j].is_revoked

\* The header carries no token the access decoder accepts.
BadHeader(h) ==
    \/ h.scheme # "Bearer"
    \/ h.token.sig # SECRET_KEY
    \/ h.token.type # "access"
    \/ h.token.exp < now

\* A /logout/all request is refused with one of `kinds`, nothing written.
LogoutAllRefused(p, kinds) ==
    /\ pc'[p] = "idle"
    /\ last'.op = "logout_all"
    /\ last'.res \in kinds
    /\ UNCHANGED <<ledger, blacklist>>

\* C10: a /logout/all whose header is malformed or whose token is wrongly
\* signed, expired or not of access type fails with InvalidToken, one whose
\* token is blacklisted fails with TokenRevoked, and in both cases ledger
\* and blacklist stay as they were.
C10_LogoutAllPrecondition ==
    [][\A p \in Procs :
          \A h \in IF Idle(p) /\ (last'.op = "logout_all" \/ pc'[p] = "la_revoke")
                    THEN Headers ELSE {} :
              StartLogoutAll(p, h) =>
                  /\ (BadHeader(h) => LogoutAllRefused(p, InvalidToken))
                  /\ (~BadHeader(h) /\ h.token.jti \in DOMAIN blacklist
                          => LogoutAllRefused(p, TokenRevoked))]_vars

\* A /logout/all with a blacklisted access token has just been refused.
C10_Witness ==
    /\ last.op = "logout_all" /\ last.res = TokenHasBeenRevoked
    /\ last.jti \in DOMAIN blacklist

\* Rows of owner e that are unrevoked; those of them that are also unexpired.
UnrevokedOf(e) == {j \in DOMAIN ledger : ledger[j].user_email = e /\ ~ledger[j].is_revoked}
ActiveOf(e) == {j \in UnrevokedOf(e) : ~(ledger[j].expires_at < now)}

\* The step of worker p is the bulk revoke of a /logout/all: it marks revoked
\* exactly `rows`, returns their number and leaves every other row as it was.
RevokesExactly(p, rows) ==
    /\ DOMAIN ledger' = DOMAIN ledger
    /\ \A j \in DOMAIN ledger :
          IF j \in rows
          THEN ~ledger[j].is_revoked /\ ledger'[j].is_revoked
          ELSE ledger'[j] = ledger[j]
    /\ last'.op = "logout_all" /\ last'.res = Ok
    /\ last'.count = Cardinality(rows)

LoggedOutWithToken == last.op = "logout" /\ last.jti # NoJti

\* C12: when /logout is called with a valid access token and a refresh token
\* in the body, the row of that refresh token is revoked when it returns.
C12_LogoutRevokesRefresh ==
    (LoggedOutWithToken /\ last.body \in DOMAIN ledger) => ledger[last.body].is_revoked

\* C13: whatever the header (absent, not Bearer, an undecodable, expired or
\* wrong-type token, an already blacklisted token, a valid token), /logout
\* answers success.
C13_LogoutAlwaysSucceeds == last.op = "logout" => last.res = Ok

\* A /logout with an already blacklisted token has just been answered.
C13_Witness ==
    LoggedOutWithToken /\ last.count = 0 /\ last.jti \in DOMAIN blacklist

\* C14: a /logout with a valid access token leaves the blacklist with one
\* entry for its jti: the first one adds it, a repeated one changes nothing,
\* and either answers success.
C14_LogoutIdempotent ==
    [][(Quiet /\ last'.op = "logout" /\ last'.jti # NoJti) =>
          /\ last'.res = Ok
          /\ IF last'.jti \in DOMAIN blacklist
             THEN blacklist' = blacklist /\ last'.count = 0
             ELSE /\ DOMAIN blacklist' = DOMAIN blacklist \cup {last'.jti}
                  /\ \A j \in DOMAIN blacklist : blacklist'[j] = blacklist[j]
                  /\ last'.count = 1]_vars

\* The same access token has been logged out twice, by two workers in turn,
\* and the blacklist holds its one entry.
C14_Witness ==
    /\ LoggedOutWithToken /\ last.count = 0
    /\ DOMAIN blacklist = {last.jti}
    /\ loggedOut = {last.jti}

\* Some account is stored under the email or under a case variant of it.
Registered(email) == \E k \in DOMAIN users : Fold(k) = Fold(email)

\* C15: a /register for an email that is registered, in the same or another
\* case, is refused with DuplicateEmail at the existence check, so no user
\* and no ledger row is created.
C15_DuplicateEmailRefused ==
    [][\A p \in Procs :
          \A e \in IF Idle(p) THEN CaseEmails ELSE {} :
             \A pw \in RegisterPasswords :
                (Registered(e) /\ StartRegister(p, e, pw)) =>
                    /\ pc'[p] = "idle"
                    /\ last'.op = "register" /\ last'.res = EmailAlreadyRegistered]_vars

\* C16: a /register is answered with success or with DuplicateEmail, also
\* when another /register for the same email committed between its existence
\* check and its insert.
C16_LoserGetsDuplicateEmail ==
    last.op = "register" => last.res \in {Ok, EmailAlreadyRegistered}

\* The stored password hash is not the hash of the password typed.
WrongPassword(user, password) == user.password_hash # hash_password(password)

\* The one response every refused /login of the two kinds gets.
LoginRefused == [NoLast EXCEPT !.op = "login", !.res = InvalidEmailOrPassword]

\* C17: a /login for an email no account has, and a /login with a wrong
\* password for an account that exists, are answered with one and the same
\* response, InvalidCredentials with the same status and message.
C17_LoginFailureUniform ==
    [][\A p \in Procs :
          \A e \in IF Idle(p) THEN CaseEmails ELSE {} :
             \A pw \in Passwords :
                (/\ StartLogin(p, e, pw)
                 /\ \/ get_user_by_email(users, e) = NoUser
                    \/ WrongPassword(get_user_by_email(users, e), pw))
                    => /\ pc'[p] = "idle"
                       /\ last' = LoginRefused
                       /\ last'.res \in InvalidCredentials]_vars

\* A /login has been refused while every email offered has an active
\* account: the password was wrong.
C17_Witness ==
    /\ last = LoginRefused
    /\ \A e \in CaseEmails : get_user_by_email(users, e).is_active

\* C18: a /login for an account that is not active is refused, with
\* AccountDisabled when the password is right and with InvalidCredentials
\* when it is wrong, and mints no token.
C18_InactiveLogin ==
    [][\A p \in Procs :
          \A e \in IF Idle(p) THEN CaseEmails ELSE {} :
             \A pw \in Passwords :
                LET user == get_user_by_email(users, e)
                IN (StartLogin(p, e, pw) /\ user # NoUser /\ ~user.is_active)
                      => /\ pc'[p] = "idle"
                         /\ last'.op = "login" /\ last'.new = NoJti
                         /\ IF WrongPassword(user, pw)
                            THEN last'.res \in InvalidCredentials
                            ELSE last'.res \in AccountDisabled
                         /\ UNCHANGED <<users, ledger, nextJti, issued>>]_vars

\* A /login with the right password has been refused for a disabled account.
C18_Witness ==
    /\ last.op = "login" /\ last.res \in AccountDisabled
    /\ \E e \in DOMAIN users : ~users[e].is_active

\* C19: a /refresh with a token of another signature, past its exp, or not
\* of refresh type is refused with InvalidToken at once; ledger, blacklist
\* and users stay as they were and nothing is minted.
C19_RefreshRejectsInvalid ==
    [][\A p \in Procs :
          \A t \in IF Idle(p) THEN AccountOffered ELSE {} :
             (~PassesVerification(t) /\ StartRefresh(p, t))
                => /\ pc'[p] = "idle"
                   /\ last'.op = "refresh" /\ last'.res = InvalidOrExpiredRefresh
                   /\ last'.res \in InvalidToken
                   /\ last'.new = NoJti
                   /\ UNCHANGED <<users, ledger, blacklist, nextJti, issued>>]_vars

\* A /refresh with a token signed with the refresh secret and unexpired, but
\* of access type, has been refused while its ledger row is live (tokens of
\* another signature are offered for the first pair only).
C19_Witness ==
    /\ Refreshed /\ last.res = InvalidOrExpiredRefresh
    /\ ~last.genuine /\ last.jti > 2
    /\ Unrevoked(last.jti) /\ ~(ledger[last.jti].expires_at < now)

\* No active account answers to the email.
MissingOrInactive(email) ==
    LET user == get_user_by_email(users, email)
    IN user = NoUser \/ ~user.is_active

\* C20: a /refresh with a token the ledger accepts, for a user that is
\* missing or not active, is refused with UserInactive; nothing is minted,
\* no row is inserted, and the row of the token stays unrevoked.
C20_RefreshUserInactive ==
    [][\A p \in Procs :
          (/\ At(p, "rf_validate") /\ pc'[p] # "rf_validate"
           /\ validate_refresh_token(ledger, req[p].tok.jti, req[p].tok, now)
           /\ MissingOrInactive(req[p].tok.sub))
             => /\ pc'[p] = "idle"
                /\ last'.op = "refresh" /\ last'.res \in UserInactive
                /\ last'.new = NoJti
                /\ UNCHANGED <<users, ledger, nextJti, issued>>
                /\ req[p].tok.jti \in DOMAIN ledger'
                /\ ~ledger'[req[p].tok.jti].is_revoked]_vars

\* A /refresh has been refused for want of an active user, and the row of
\* the token it presented is still unrevoked.
C20_Witness ==
    /\ Refreshed /\ last.res \in UserInactive
    /\ Unrevoked(last.jti)

\* C21: a /refresh that reaches its rotation and does not find the row of
\* the presented token fails and inserts nothing; and whenever a rotation
\* inserts a row, the row of the presented token is there, revoked, with
\* replaced_by naming the new row.
C21_RotateNeedsOldRow ==
    [][\A p \in Procs :
          (At(p, "rf_rotate") /\ pc'[p] # "rf_rotate") =>
             LET old == req[p].tok.jti
                 new == req[p].new.jti
             IN /\ old \in DOMAIN ledger \/ (last'.res # Ok /\ ledger' = ledger)
                /\ \/ DOMAIN ledger' = DOMAIN ledger
                   \/ /\ old \in DOMAIN ledger'
                      /\ ledger'[old].is_revoked
                      /\ ledger'[old].replaced_by = new]_vars

\* The instant, on the clock the cleanups read, that a blacklist row's
\* expires_at stands for: /logout wrote it as the token's exp in local time.
EntryExpiry(j) == blacklist[j].expires_at - tz

\* C22: a purge of the ledger removes the rows whose expires_at has passed,
\* revoked or not, and keeps every other row as it is; a purge of the
\* blacklist removes the entries whose expiry has passed and keeps every
\* entry whose expiry has not.
C22_PurgeExact ==
    [][/\ (DOMAIN ledger' # DOMAIN ledger /\ CleanupRefreshTokens) =>
             /\ DOMAIN ledger' = {j \in DOMAIN ledger : ~(ledger[j].expires_at < now)}
             /\ \A j \in DOMAIN ledger' : ledger'[j] = ledger[j]
       /\ (DOMAIN blacklist' # DOMAIN blacklist /\ CleanupBlacklist) =>
             /\ DOMAIN blacklist' = {j \in DOMAIN blacklist : ~(EntryExpiry(j) < now)}
             /\ \A j \in DOMAIN blacklist' : blacklist'[j] = blacklist[j]]_vars

\* The server minted the token as one of the class.
MintedAs(t, class) == t \in issued /\ t.type = class

\* The token carries the signature of one class and the type tag of the other.
Crossed(t) ==
    \E u \in issued : \/ u.type = "access" /\ t = Relabelled(u)
                      \/ u.type = "refresh" /\ t = Retyped(u)

\* C23: a token minted as a refresh token, or carrying the tag of one class
\* under the secret of the other, is accepted neither by decode_access_token
\* nor by /logout's blacklisting nor by /logout/all; a token minted as an
\* access token, or so crossed, is accepted neither by decode_refresh_token
\* nor by /refresh.
C23_TypeConfusionRejected ==
    [][\A p \in Procs :
          \A t \in IF Idle(p) /\ last' # NoLast THEN TokenOffered ELSE {} :
             LET h == [scheme |-> "Bearer", token |-> t]
                 notAccess == MintedAs(t, "refresh") \/ Crossed(t)
                 notRefresh == MintedAs(t, "access") \/ Crossed(t)
             IN /\ (notAccess /\ VerifyToken(p, t, "access")) => last'.payload = NoPayload
                /\ (notAccess /\ Logout(p, h, NoToken)) =>
                       (blacklist' = blacklist /\ last'.count = 0)
                /\ (notAccess /\ StartLogoutAll(p, h)) =>
                       (pc'[p] = "idle" /\ last'.res \in InvalidToken)
                /\ (notRefresh /\ VerifyToken(p, t, "refresh")) => last'.payload = NoPayload
                /\ (notRefresh /\ StartRefresh(p, t)) =>
                       (pc'[p] = "idle" /\ last'.res \in InvalidToken)]_vars

\* A /refresh has been refused as invalid for a token that carries the jti
\* of an unexpired access token of a later pair: the access token itself or
\* its relabelled copy (re-signed and recast tokens are refused otherwise or
\* offered for the first pair only).
C23_Witness ==
    /\ Refreshed /\ last.res \in InvalidToken /\ last.jti > 2
    /\ \E u \in issued : u.type = "access" /\ u.jti = last.jti /\ ~(u.exp < now)

\* The claims a token was issued with.
Claims(t) == [type |-> t.type, sub |-> t.sub, exp |-> t.exp, jti |-> t.jti]

C25_RotationFailureIsError ==
    [][\A p \in Procs :
          (At(p, "rf_rotate") /\ pc'[p] # "rf_rotate") =>
             LET new == req[p].new
             IN /\ new.jti \in DOMAIN ledger' \/
                      (last'.res = InternalServerError /\ last'.new = NoJti /\ issued' = issued)
                /\ last'.res # Ok \/
                      /\ last'.new = new.jti
                      /\ new.jti \in DOMAIN ledger'
                      /\ ledger'[new.jti].token_hash = _hash_token(new)]_vars

\* A /refresh has failed at its rotation: the caller got an error and no
\* token, and the row of the token it presented is unrevoked as before.
C25_Witness ==
    /\ Refreshed /\ last.res = InternalServerError /\ last.new = NoJti
    /\ Unrevoked(last.jti)

\* The refresh token the response just sent carries.
Returned ==
    IF last.res = Ok /\ last.new # NoJti
    THEN {t \in issued : t.type = "refresh" /\ t.jti = last.new}
    ELSE {}

\* Every test /refresh makes of a token passes in the present state.
WouldRefresh(t) ==
    /\ decode_refresh_token(t, now) # NoPayload
    /\ ~is_token_blacklisted(blacklist, t.jti)
    /\ validate_refresh_token(ledger, t.jti, t, now)
    /\ ~MissingOrInactive(t.sub)

\* C26: when /register, /login or /refresh answers with a refresh token,
\* the ledger holds a row under the token's jti that is unrevoked, owned by
\* the token's subject and stores the hash of the token; and, the token's
\* exp not having passed while the handler ran, a /refresh with it in that
\* state passes every test.
C26_ReturnedTokenUsable ==
    \A t \in Returned :
        /\ t.jti \in DOMAIN ledger
        /\ ~ledger[t.jti].is_revoked
        /\ ledger[t.jti].user_email = t.sub
        /\ ledger[t.jti].token_hash = _hash_token(t)
        /\ t.exp < now \/ WouldRefresh(t)

\* A /refresh has answered with a refresh token that would itself refresh.
C26_Witness ==
    /\ Refreshed /\ Returned # {}
    /\ \A t \in Returned : WouldRefresh(t)

\* The accounts stored under the email or under a case variant of it.
AccountsOf(email) == {k \in DOMAIN users : Fold(k) = Fold(email)}

\* C27: a /login with the right password under any letter case of the email
\* of the one active account registered for it is accepted, and goes on for
\* that account.
C27_LoginAnyCase ==
    [][\A p \in Procs :
          \A e \in IF Idle(p) THEN CaseEmails ELSE {} :
             \A pw \in Passwords :
                (/\ StartLogin(p, e, pw)
                 /\ \E k \in AccountsOf(e) :
                       /\ AccountsOf(e) = {k}
                       /\ users[k].is_active
                       /\ ~WrongPassword(users[k], pw))
                    => /\ pc'[p] = "login_update"
                       /\ req'[p].email \in AccountsOf(e)]_vars

\* The handler of p is past its first write and ends now with an error.
CutOff(p, label) ==
    At(p, label) /\ pc'[p] = "idle" /\ last'.res # Ok

\* C28: a /register that fails after its first write leaves no user record
\* behind, and a /refresh that fails at its rotation leaves the ledger as it
\* was or as the completed rotation leaves it.
C28_NoPartialPersistence ==
    [][\A p \in Procs :
          /\ CutOff(p, "reg_store") =>
                (\A k \in DOMAIN users' : ~Matches(k, req[p].email))
          /\ CutOff(p, "rf_rotate") =>
                \/ ledger' = ledger
                \/ ledger' = rotate_refresh_token(ledger, req[p].tok.jti, req[p].new.jti,
                                                  req[p].tok.sub, req[p].new,
                                                  now + Days(REFRESH_TOKEN_EXPIRE_DAYS), now)]_vars

\* C29: a /refresh that succeeds leaves the row of the presented token
\* revoked with replaced_by naming the returned token, adds one unrevoked row
\* for the returned token with the same owner, and changes no other ledger
\* row, nor the blacklist, nor the users.
C29_RefreshPostState ==
    [][\A p \in Procs :
          (At(p, "rf_rotate") /\ pc'[p] # "rf_rotate" /\ last'.res = Ok) =>
             LET old == req[p].tok.jti
                 new == req[p].new.jti
             IN /\ last'.new = new
                /\ new \notin DOMAIN ledger
                /\ DOMAIN ledger' = DOMAIN ledger \cup {new}
                /\ old \in DOMAIN ledger
                /\ ledger'[old].is_revoked
                /\ ledger'[old].replaced_by = new
                /\ ~ledger'[new].is_revoked
                /\ ledger'[new].user_email = ledger[old].user_email
                /\ \A j \in DOMAIN ledger \ {old} : ledger'[j] = ledger[j]
                /\ UNCHANGED <<blacklist, users>>]_vars

\* C30: a /login refused with InvalidCredentials or AccountDisabled changes
\* neither users (last_login included), nor ledger, nor blacklist; and no
\* /login that has run update_last_login ends in an error.
C30_FailedLoginFrame ==
    [][\A p \in Procs :
          /\ (/\ Idle(p) /\ last'.op = "login"
              /\ last'.res \in InvalidCredentials \cup AccountDisabled)
                => UNCHANGED <<users, ledger, blacklist>>
          /\ ~CutOff(p, "login_store")]_vars

\* The /analyze request just answered asked for force_refresh.
ForceRefresh == getattr(analysis.body, "force_refresh", FALSE)

\* An analysis of the username of that request was stored when it came in.
HadStored ==
    \E i \in DOMAIN analysis.before :
        analysis.before[i].username = analysis.username

\* The rows of the username with the greatest analyzed_at when it came in.
LatestBefore ==
    {i \in DOMAIN analysis.before :
        /\ analysis.before[i].username = analysis.username
        /\ \A k \in DOMAIN analysis.before :
              analysis.before[k].username = analysis.username
                  => analysis.before[k].analyzed_at
                        <= analysis.before[i].analyzed_at}

\* C31: with force_refresh true and a stored analysis for the username,
\* /analyze calls the scraper again instead of answering from the stored
\* row; with force_refresh unset and a stored analysis, it answers from the
\* latest stored row, calls no scraper and writes no row.
C31_ForceRefreshBypassesCache ==
    /\ (ForceRefresh /\ HadStored) => (analysis.scraped /\ analysis.row = 0)
    /\ (~ForceRefresh /\ HadStored) =>
          /\ analysis.row \in LatestBefore
          /\ ~analysis.scraped
          /\ history = analysis.before

\* C32: a ledger row's replaced_by, once set, is never changed to another
\* jti by any later or concurrent operation.
C32_ReplacedByWriteOnce ==
    [][\A j \in DOMAIN ledger :
          (ledger[j].replaced_by # NoJti /\ j \in DOMAIN ledger')
              => ledger'[j].replaced_by = ledger[j].replaced_by]_vars

\* The rows that have been rotated: their replaced_by is set.
Rotated == {j \in DOMAIN ledger : ledger[j].replaced_by # NoJti}

\* C33: in every reachable state, cleanups included, the row a replaced_by
\* names is in the ledger and has the owner of the row that names it.
C33_SuccessorPresent ==
    \A j \in Rotated :
        /\ ledger[j].replaced_by \in DOMAIN ledger
        /\ ledger[ledger[j].replaced_by].user_email = ledger[j].user_email

\* A cleanup has deleted the first row of a chain whose second row, rotated
\* as well, is still there.
C33_Witness ==
    /\ Rotated # {}
    /\ \E t \in issued :
          /\ t.type = "refresh" /\ t.jti \notin DOMAIN ledger
          /\ \E j \in Rotated : parent[j] = t.jti

\* The refresh tokens returned to clients whose ledger row is present.
Stored == {t \in issued : t.type = "refresh" /\ t.jti \in DOMAIN ledger}

\* C34: the expires_at of a stored refresh token's row is never earlier than
\* the token's exp claim, and the row of a token decode_refresh_token
\* accepts is never past its expires_at, the condition on which
\* validate_refresh_token refuses it and cleanup_expired_refresh_tokens
\* deletes it.
C34_RowOutlivesToken ==
    \A t \in Stored :
        /\ ~(ledger[t.jti].expires_at < t.exp)
        /\ decode_refresh_token(t, now) # NoPayload
              => ~(ledger[t.jti].expires_at < now)

\* The step is one of /logout/all: its checks or its bulk revoke.
LogoutAllStep ==
    \/ last'.op = "logout_all"
    \/ \E p \in Procs : pc[p] # "la_revoke" /\ pc'[p] = "la_revoke"

\* C35: no step of /logout/all changes the blacklist, and a /logout/all with
\* an access token the server returned, not yet expired and not on the
\* blacklist, passes the handler's checks whatever /logout/all did before.
C35_LogoutAllKeepsBlacklist ==
    [][/\ LogoutAllStep => UNCHANGED blacklist
       /\ \A p \in Procs :
             \A t \in IF Idle(p) THEN {u \in issued : u.type = "access"} ELSE {} :
                 (/\ StartLogoutAll(p, [scheme |-> "Bearer", token |-> t])
                  /\ ~(t.exp < timegm(now))
                  /\ ~is_token_blacklisted(blacklist, t.jti))
                     => pc'[p] = "la_revoke"]_vars

\* A second /logout/all with an access token has succeeded after a first
\* one revoked every row of its owner: it finds none left to revoke.
C35_Witness ==
    /\ last.op = "logout_all" /\ last.res = Ok /\ last.count = 0
    /\ \E t \in issued : /\ t.type = "access" /\ t.jti = last.jti
                         /\ \E j \in killed : ledger[j].user_email = t.sub
    /\ blacklist = <<>>

\* The password the account of `email` was registered with.
RegisteredWith(email) ==
    CHOOSE pw \in CredentialRegister :
        users[email].password_hash = hash_password(pw)

\* C36: the account /register creates holds the hash of the password given;
\* no operation removes an account or changes its hash; and a /login for an
\* active account goes on to success with the password it was registered
\* with and fails with InvalidCredentials with every other password.
C36_CredentialsRoundTrip ==
    [][\A p \in Procs :
          /\ (pc[p] = "reg_create" /\ pc'[p] = "reg_store")
                => users'[req[p].email].password_hash = hash_password(req[p].password)
          /\ \A e \in DOMAIN users :
                /\ e \in DOMAIN users'
                /\ users'[e].password_hash = users[e].password_hash
          /\ \A e \in IF Idle(p) THEN DOMAIN users ELSE {} :
                \A pw \in CredentialLogin :
                    (StartLogin(p, e, pw) /\ users[e].is_active)
                        => IF pw = RegisteredWith(e)
                           THEN pc'[p] = "login_update"
                           ELSE last'.res \in InvalidCredentials
          /\ (pc[p] = "login_store" /\ pc'[p] = "idle")
                => (last'.op = "login" /\ last'.res = Ok)]_vars

\* C37: revoke_refresh_token returns True exactly when the ledger has a row
\* of the jti; the row is then revoked and keeps its replaced_by, owner, hash
\* and expiry; when it returns False the ledger is as it was.
C37_RevokeSingle ==
    [][last'.op = "revoke" =>
          LET j == last'.jti
          IN  /\ (last'.res = PyBool(TRUE)) <=> (j \in DOMAIN ledger)
              /\ last'.res \in {PyBool(TRUE), PyBool(FALSE)}
              /\ IF last'.res = PyBool(TRUE)
                 THEN /\ j \in DOMAIN ledger'
                      /\ ledger'[j].is_revoked
                      /\ ledger'[j].replaced_by = ledger[j].replaced_by
                      /\ ledger'[j].user_email = ledger[j].user_email
                      /\ ledger'[j].token_hash = ledger[j].token_hash
                      /\ ledger'[j].expires_at = ledger[j].expires_at
                 ELSE ledger' = ledger]_vars

\* The call has returned True for a row that had been rotated, and another
\* row of the ledger is still unrevoked.
C37_Witness ==
    /\ last.op = "revoke" /\ last.res = PyBool(TRUE)
    /\ ledger[last.jti].replaced_by # NoJti
    /\ \E k \in DOMAIN ledger : ~ledger[k].is_revoked

====
